---- MODULE Spec2Model ----
(***************************************************************************)
(* PiFrame download subsystem (src/client/main.c, lines 129-487).          *)
(*                                                                         *)
(* Two threads: the GTK main thread (DownloadNew, onDownloadQueuePoll) and *)
(* the curl thread (curlThread, onCURLDownloadSegment,                     *)
(* onCURLDownloadProgress, downloadPushProgressItem,                       *)
(* downloadRecycleProgressItems).  They share four GAsyncQueues and the    *)
(* Download structures that travel through them.  Each thread is modelled  *)
(* as a program counter plus its local variables; a step of a thread is a  *)
(* stretch of code containing at most one access to shared memory, so      *)
(* that every interleaving the two threads can produce is a behaviour.     *)
(*                                                                         *)
(* Bytes of a transfer are numbered 1, 2, 3, ... in the order the transfer *)
(* engine hands them over, and the value of a byte is its number.          *)
(***************************************************************************)
EXTENDS Integers, Sequences, FiniteSets, TLC

\* ------------------------------------------------------------------ bounds
\* number of DownloadNew calls in a behaviour
MaxDownloads == 2
\* most bytes the transfer engine delivers in a behaviour, all downloads together
MaxBytes == 3
\* chunk capacity, main.c:327 (#define kMaxChunksize (128 * 1024)), scaled
\* down so that a transfer of MaxBytes bytes fills and overfills a chunk
kMaxChunksize == 2

\* ----------------------------------------------------------- program data
NULL == 0
\* Download.reason before the curl thread sets it (main.c:229)
NULL_REASON == "null"
CURLE_OK == 0
CURLE_RECV_ERROR == 56
\* the values curl_easy_perform returns in the model
CurlCodes == {CURLE_OK, CURLE_RECV_ERROR}

\* size_t / unsigned arithmetic wraps; TLC integers are 32-bit signed, so the
\* word is modelled 30 bits wide (every length of the model is far below it)
WordModulus == 2^30
SizeSub(a, b) == (a - b) % WordModulus
MIN(a, b) == IF a < b THEN a ELSE b

\* addresses malloc can return for a Download
Addr == 1..MaxDownloads
\* identities of the DownloadNew calls (history only, not program state)
Ids == 1..MaxDownloads

\* a byte whose value the program does not determine (read outside an object)
Indeterminate == 0

\* the callbacks a caller may register: DownloadOptions.progressCallback and
\* .completeCallback are tested against 0 before use (main.c:260, 284).  The
\* caller of a behaviour registers the same callbacks for all its downloads,
\* as ImageDownloadNew does (main.c:539-545).
CallbackOptions == {[progressCallback |-> TRUE, completeCallback |-> TRUE],
                    [progressCallback |-> FALSE, completeCallback |-> FALSE]}

\* id and seq are not program state: they name the item as the seq-th item
\* allocated for the download with identity id
NoItem == [context |-> NULL, chunk |-> << >>, length |-> 0,
           bytesExpected |-> 0, bytesLoaded |-> 0, id |-> 0, seq |-> 0,
           none |-> TRUE]

\* malloc(sizeof(DownloadProgressItem)) + malloc(kMaxChunksize), length = 0
NewItem(id, seq) == [context |-> NULL, chunk |-> << >>, length |-> 0,
                     bytesExpected |-> 0, bytesLoaded |-> 0, id |-> id,
                     seq |-> seq, none |-> FALSE]

\* memory of a Download that malloc has not handed out yet
FreeDownload == [live |-> FALSE, id |-> 0,
                 options |-> [progressCallback |-> FALSE, completeCallback |-> FALSE],
                 result |-> 0, reason |-> NULL_REASON,
                 bytesExpected |-> 0, bytesLoaded |-> 0,
                 currentProgressItem |-> NoItem,
                 outstandingProgressItems |-> 0]

\* --------------------------------------------------------------- GAsyncQueue
\* A GAsyncQueue is a GQueue under a mutex (main.c:100-109); a queue of the
\* model is the GQueue, head first.  GLib pushes at the head and pops at the
\* tail, and every operation runs under the queue's mutex, so it is one step.
\* a push that puts the item at the end the next pop takes from
g_async_queue_push_tail(queue, item) == Append(queue, item)
\* g_async_queue_push: the item goes to the head
g_async_queue_push(queue, item) == <<item>> \o queue
\* the item g_async_queue_try_pop / g_async_queue_pop returns (queue not empty)
g_queue_peek_tail(queue) == queue[Len(queue)]
\* a pop that hands out the item and leaves it in the queue as well
g_queue_keep_tail(queue) == queue
\* the queue g_async_queue_try_pop / g_async_queue_pop leaves (queue not empty)
g_queue_pop_tail(queue) == SubSeq(queue, 1, Len(queue) - 1)
\* a push_front that puts the item where g_async_queue_push puts it
g_async_queue_push_head(queue, item) == <<item>> \o queue
\* main.c:111-123: g_queue_push_tail, the end the next pop takes from
g_async_queue_push_front(queue, item) == Append(queue, item)

VARIABLES
    callerOptions,         \* the DownloadOptions callbacks the caller passes
    nextImage,             \* the caller is the PiFrame application (main.c:891)
    jobQueue,              \* gDownload.jobQueue: Download addresses, main -> curl
    resultsQueue,          \* gDownload.resultsQueue: Download addresses, curl -> main
    progressQueue,         \* gDownload.progressQueue: items, curl -> main
    progressRecycleQueue,  \* gDownload.progressRecycleQueue: items, main -> curl
    count,                 \* gDownload.count
    pollTimers,            \* registrations of onDownloadQueuePoll with the main loop
    nextDownloadTimers,    \* registrations of onNextDownloadDelay with the main loop
    downloads,             \* heap: Addr -> Download
    crashed,               \* the process died of a memory fault
    \* curl thread
    wpc, download, curlResult, segment, segCursor, segmentLength, wtmp, wret,
    \* main thread, inside onDownloadQueuePoll
    dpc, progressItem, dtmp, completeItem,
    \* history
    nextId,       \* number of DownloadNew calls so far; the n-th has identity n
    received,     \* per download, the bytes handed to onCURLDownloadSegment
    performed,    \* per download, how far its transfer has got
    pushedLog,    \* per download, the progress items pushed to the progress queue
    progressLog,  \* per download, the calls of its progress callback
    completeLog,  \* per download, the calls of its completion callback
    freeLog,      \* per download, the number of times it has been freed
    recordLog,    \* per download, the number of pushes to the results queue
    claimLog,     \* the downloads in the order the curl thread popped them
    examined,     \* per download, pops from the results queue in this tick (up to 2)
    lastTick      \* whether the running tick, or else the last one, has popped
                  \* an item or a record ("popped") or none so far ("empty")

shared == <<callerOptions, nextImage, jobQueue, resultsQueue, progressQueue,
            progressRecycleQueue, count, pollTimers, nextDownloadTimers,
            downloads, crashed>>
workerVars == <<wpc, download, curlResult, segment, segCursor, segmentLength, wtmp, wret>>
mainVars == <<dpc, progressItem, dtmp, completeItem>>
history == <<nextId, received, performed, pushedLog, progressLog, completeLog,
             freeLog, recordLog, claimLog, examined, lastTick>>
vars == <<shared, workerVars, mainVars, history>>

\* history of a download's transfer: state is "none" until the curl thread
\* claims it, then "init-error" or "active", then "returned" with the code
\* curl_easy_perform returned
NotPerformed == [state |-> "none", code |-> 0]

\* DownloadInit (main.c:202-213) followed by g_thread_new (main.c:883): the
\* queues are empty, gDownload.count is 0, the curl thread waits for a job
DownloadInit ==
    /\ jobQueue = << >>
    /\ resultsQueue = << >>
    /\ progressQueue = << >>
    /\ progressRecycleQueue = << >>
    /\ count = 0
    /\ pollTimers = 0
    /\ downloads = [a \in Addr |-> FreeDownload]
    /\ crashed = FALSE
    /\ wpc = "wait" /\ download = NULL /\ curlResult = 0
    /\ segment = << >> /\ segCursor = 0 /\ segmentLength = 0
    /\ wtmp = 0 /\ wret = "none"
    /\ dpc = "idle" /\ progressItem = NoItem /\ dtmp = 0 /\ completeItem = NULL
    /\ nextId = 0
    /\ received = [i \in Ids |-> << >>]
    /\ performed = [i \in Ids |-> NotPerformed]
    /\ recordLog = [i \in Ids |-> 0]
    /\ pushedLog = [i \in Ids |-> << >>]
    /\ progressLog = [i \in Ids |-> << >>]
    /\ completeLog = [i \in Ids |-> << >>]
    /\ freeLog = [i \in Ids |-> 0]
    /\ claimLog = << >>
    /\ examined = [i \in Ids |-> 0]
    /\ lastTick = "none"

\* the Download subsystem with a caller that registers both callbacks or none
Init ==
    /\ callerOptions \in CallbackOptions
    /\ nextImage = FALSE
    /\ nextDownloadTimers = 0
    /\ DownloadInit

\* the PiFrame application (main.c:815-911): ImageDownloadNew registers
\* onImageDownloadProgress and onImageDownloadComplete (main.c:539-545), and
\* main registers onNextDownloadDelay for the first download (main.c:908)
AppInit ==
    /\ callerOptions = [progressCallback |-> TRUE, completeCallback |-> TRUE]
    /\ nextImage = TRUE
    /\ nextDownloadTimers = 1
    /\ DownloadInit

Max(a, b) == IF a > b THEN a ELSE b

\* a job queue with every new Download put at the popping end
SubmitFront(queue, a) == g_async_queue_push_front(queue, a)
\* main.c:237: the new Download goes to the job queue
Submit(queue, a) == g_async_queue_push(queue, a)

\* a completion loop that pushes every Download it pops back to the queue
DeferredAlways(d) == TRUE
\* main.c:279 and 299-304: the popped Download d has outstanding progress
\* items, so it is deferred with g_async_queue_push_front
Deferred(d) == d.outstandingProgressItems # 0

\* ------------------------------------------------------------- main thread
\* onDownloadQueuePoll is inside a callback of the caller: the progress
\* callback (main.c:263) has been entered and outstandingProgressItems-- not
\* yet begun, or the completion callback (main.c:287) has been entered and the
\* frees not yet begun
InCallback ==
    \/ dpc = "decrement" /\ downloads[progressItem.context].options.progressCallback
    \/ dpc = "free" /\ downloads[completeItem].options.completeCallback

\* a DownloadNew that registers the poller at every call
ArmsTickAlways(n) == TRUE
\* main.c:239: DownloadNew registers onDownloadQueuePoll when gDownload.count,
\* before its increment, is 0
ArmsTick(n) == n = 0

\* DownloadNew (main.c:215-249) for the block a that malloc returns.  malloc
\* returns any block that is not in use; blocks never handed out before are
\* interchangeable, so the lowest of them stands for all.
DownloadNewCall(a) ==
    /\ ~crashed
    /\ nextId < MaxDownloads
    /\ ~downloads[a].live
    /\ \A b \in Addr : b < a => downloads[b].id # 0
    /\ nextId' = nextId + 1
    /\ downloads' = [downloads EXCEPT ![a] =
            [live |-> TRUE, id |-> nextId + 1, options |-> callerOptions,
             result |-> 0, reason |-> NULL_REASON,
             bytesExpected |-> 0, bytesLoaded |-> 0,
             currentProgressItem |-> NoItem,
             outstandingProgressItems |-> 0]]
    /\ jobQueue' = Submit(jobQueue, a)
    /\ pollTimers' = IF ArmsTick(count) THEN pollTimers + 1 ELSE pollTimers
    /\ count' = (count + 1) % WordModulus
    /\ UNCHANGED <<callerOptions, nextImage, resultsQueue, progressQueue,
                   progressRecycleQueue, crashed>>
    /\ UNCHANGED <<workerVars, mainVars>>
    /\ UNCHANGED <<received, performed, pushedLog, progressLog, completeLog,
                   freeLog, recordLog, claimLog, examined, lastTick>>

\* a caller of the Download subsystem other than the PiFrame application calls
\* DownloadNew on the main thread: from a main-loop callback of its own,
\* between two ticks, or from inside a progress or completion callback
DownloadNew(a) ==
    /\ ~nextImage
    /\ dpc = "idle" \/ InCallback
    /\ DownloadNewCall(a)
    /\ UNCHANGED nextDownloadTimers

\* onNextDownloadDelay (main.c:768-784), the one-shot timer callback of the
\* PiFrame application: ImageDownloadNew (main.c:524-550) calls DownloadNew
\* and the timer is removed (return FALSE)
onNextDownloadDelay(a) ==
    /\ nextImage
    /\ dpc = "idle"
    /\ nextDownloadTimers > 0
    /\ nextDownloadTimers' = nextDownloadTimers - 1
    /\ DownloadNewCall(a)

\* a tick that asks to be called again whatever gDownload.count is
PollReturnAlways(n) == TRUE
\* main.c:309: return(gDownload.count > 0), TRUE keeping the timer registered
PollReturn(n) == n > 0

\* the main loop calls onDownloadQueuePoll (main.c:251) for a registered
\* timer: the tick is at its first g_async_queue_try_pop
PollEntered == dpc = "idle" /\ pollTimers > 0

\* what the progress callback is handed for an item (main.c:263); from and seq
\* name the item
ProgressCall(item) ==
    [from |-> item.id, seq |-> item.seq, data |-> item.chunk, length |-> item.length,
     received |-> item.bytesLoaded, expected |-> item.bytesExpected]

\* main.c:257-264: one g_async_queue_try_pop of the progress loop and, for an
\* item, the progress callback.  item->context is read here: when that
\* Download has been freed the read is of freed memory, which either still
\* holds what was there (or what a later DownloadNew put there) or faults.
PollProgressPop ==
    /\ ~crashed
    /\ dpc = "progress" \/ PollEntered
    /\ examined' = IF dpc = "idle" THEN [i \in Ids |-> 0] ELSE examined
    /\ IF progressQueue = << >>
       THEN /\ dpc' = "results"
            /\ lastTick' = IF dpc = "idle" THEN "empty" ELSE lastTick
            /\ UNCHANGED <<shared, progressItem, dtmp, completeItem, progressLog>>
       ELSE LET item == g_queue_peek_tail(progressQueue)
                d == downloads[item.context]
            IN  \E fault \in (IF ~d.live \/ (d.options.progressCallback
                                              /\ item.length > kMaxChunksize)
                               THEN BOOLEAN ELSE {FALSE}) :
                  IF fault
                  THEN /\ crashed' = TRUE
                       /\ lastTick' = IF dpc = "idle" THEN "empty" ELSE lastTick
                       /\ UNCHANGED <<callerOptions, nextImage, jobQueue, resultsQueue,
                                      progressQueue, progressRecycleQueue, count,
                                      pollTimers, nextDownloadTimers,
                                      downloads, mainVars, progressLog>>
                  ELSE /\ progressQueue' = g_queue_pop_tail(progressQueue)
                       /\ progressItem' = item
                       /\ progressLog' =
                             IF d.options.progressCallback
                             THEN [progressLog EXCEPT ![d.id] =
                                      Append(@, ProgressCall(item))]
                             ELSE progressLog
                       /\ dpc' = "decrement"
                       /\ lastTick' = "popped"
                       /\ UNCHANGED <<callerOptions, nextImage, jobQueue, resultsQueue,
                                      progressRecycleQueue, count, pollTimers,
                                      nextDownloadTimers, downloads, crashed, dtmp,
                                      completeItem>>
    /\ UNCHANGED <<workerVars, nextId, received, performed, pushedLog,
                   completeLog, freeLog, recordLog, claimLog>>

\* main.c:267, first half of outstandingProgressItems--: the load.  The field
\* is a plain int (main.c:165) that the curl thread increments (main.c:338)
\* with no lock held, so the load and the store are separate steps.
PollDecrementLoad ==
    /\ ~crashed
    /\ dpc = "decrement"
    /\ dtmp' = downloads[progressItem.context].outstandingProgressItems
    /\ dpc' = "store"
    /\ UNCHANGED <<shared, workerVars, progressItem, completeItem, history>>

\* main.c:267-270: the store of outstandingProgressItems--, context = 0 and the
\* push of the item to the recycle queue
PollDecrementStore ==
    /\ ~crashed
    /\ dpc = "store"
    /\ downloads' = [downloads EXCEPT
            ![progressItem.context].outstandingProgressItems = dtmp - 1]
    /\ progressRecycleQueue' = g_async_queue_push(progressRecycleQueue,
            [progressItem EXCEPT !.context = NULL])
    /\ progressItem' = NoItem
    /\ dtmp' = 0
    /\ dpc' = "progress"
    /\ UNCHANGED <<callerOptions, nextImage, jobQueue, resultsQueue, progressQueue,
                   count, pollTimers, nextDownloadTimers,
                   crashed, workerVars, completeItem, history>>

\* main.c:276 and 308-309: one g_async_queue_try_pop of the completion loop;
\* on an empty queue the loop ends and the function returns
\* gDownload.count > 0, FALSE removing the timer.
PollResultPop ==
    /\ ~crashed
    /\ dpc = "results"
    /\ IF resultsQueue = << >>
       THEN /\ dpc' = "idle"
            /\ pollTimers' = IF PollReturn(count) THEN pollTimers ELSE pollTimers - 1
            /\ UNCHANGED <<resultsQueue, completeItem, examined, lastTick>>
       ELSE /\ completeItem' = g_queue_peek_tail(resultsQueue)
            /\ resultsQueue' = g_queue_pop_tail(resultsQueue)
            /\ examined' = [examined EXCEPT ![downloads[completeItem'].id] =
                                MIN(@ + 1, 2)]
            /\ dpc' = "complete"
            /\ lastTick' = "popped"
            /\ UNCHANGED pollTimers
    /\ UNCHANGED <<callerOptions, nextImage, jobQueue, progressQueue,
                   progressRecycleQueue, count, nextDownloadTimers,
                   downloads, crashed, workerVars, progressItem, dtmp>>
    /\ UNCHANGED <<nextId, received, performed, pushedLog, progressLog,
                   completeLog, freeLog, recordLog, claimLog>>

\* a tick that frees a Download only when it has called its completion callback
DestroysCalled(d) == d.outstandingProgressItems = 0 /\ d.options.completeCallback
\* main.c:279: the test that guards the completion callback, the two frees
\* and gDownload.count--
Destroys(d) == d.outstandingProgressItems = 0

\* main.c:279-289 and 299-304: the popped Download has no outstanding
\* progress item: its completion callback is called, which in the PiFrame
\* application is onImageDownloadComplete (main.c:576-618), whose callback
\* onNextDownloadComplete registers onNextDownloadDelay (main.c:764) on success
\* as on failure; otherwise g_async_queue_push_front and the while loop pops
\* again.
PollResultHandle ==
    /\ ~crashed
    /\ dpc = "complete"
    /\ LET d == downloads[completeItem]
           called == d.outstandingProgressItems = 0 /\ d.options.completeCallback
       IN  /\ completeLog' =
                 IF called
                 THEN [completeLog EXCEPT ![d.id] =
                         Append(@, [result |-> d.result, reason |-> d.reason])]
                 ELSE completeLog
           /\ nextDownloadTimers' =
                 IF called /\ nextImage
                 THEN nextDownloadTimers + 1 ELSE nextDownloadTimers
           /\ resultsQueue' = IF Deferred(d)
                              THEN g_async_queue_push_front(resultsQueue, completeItem)
                              ELSE resultsQueue
           /\ IF Destroys(d)
              THEN dpc' = "free" /\ UNCHANGED completeItem
              ELSE dpc' = "results" /\ completeItem' = NULL
    /\ UNCHANGED <<callerOptions, nextImage, jobQueue, progressQueue,
                   progressRecycleQueue, count, pollTimers, downloads,
                   crashed, workerVars, progressItem, dtmp>>
    /\ UNCHANGED <<nextId, received, performed, pushedLog, progressLog,
                   freeLog, recordLog, claimLog, examined, lastTick>>

\* main.c:291-297: the completion callback has returned: the two frees and
\* gDownload.count--; the while loop pops again
PollResultFree ==
    /\ ~crashed
    /\ dpc = "free"
    /\ downloads' = [downloads EXCEPT ![completeItem].live = FALSE]
    /\ freeLog' = [freeLog EXCEPT ![downloads[completeItem].id] = @ + 1]
    /\ count' = (count - 1) % WordModulus
    /\ completeItem' = NULL
    /\ dpc' = "results"
    /\ UNCHANGED <<callerOptions, nextImage, jobQueue, resultsQueue, progressQueue,
                   progressRecycleQueue, pollTimers, nextDownloadTimers,
                   crashed, workerVars, progressItem, dtmp>>
    /\ UNCHANGED <<nextId, received, performed, pushedLog, progressLog,
                   completeLog, recordLog, claimLog, examined, lastTick>>

\* ------------------------------------------------------------- curl thread
\* the Download the curl thread is working on, and its history identity
Current == downloads[download]
CurrentId == downloads[download].id

\* a recycling that frees nothing and leaves the queue as it is
downloadRecycleNothing(queue) == queue
\* downloadRecycleProgressItems (main.c:312-325): pops the recycle queue until
\* it is empty and frees each item and its chunk
downloadRecycleProgressItems(queue) == << >>

\* main.c:429-447: g_async_queue_pop blocks until the job queue holds a
\* Download; curl_easy_init then succeeds or returns 0
CurlThreadPop ==
    /\ ~crashed
    /\ wpc = "wait"
    /\ jobQueue # << >>
    /\ download' = g_queue_peek_tail(jobQueue)
    /\ jobQueue' = g_queue_pop_tail(jobQueue)
    /\ claimLog' = Append(claimLog, downloads[download'].id)
    /\ \E curl \in {0, 1} :
          /\ wpc' = IF curl = 0 THEN "initerror" ELSE "perform"
          /\ performed' = [performed EXCEPT ![downloads[download'].id].state =
                              IF curl = 0 THEN "init-error" ELSE "active"]
    /\ UNCHANGED <<callerOptions, nextImage, nextDownloadTimers, resultsQueue, progressQueue, progressRecycleQueue, count,
                   pollTimers, downloads, crashed>>
    /\ UNCHANGED <<curlResult, segment, segCursor, segmentLength, wtmp, wret, mainVars>>
    /\ UNCHANGED <<nextId, received, pushedLog, progressLog, completeLog,
                   freeLog, recordLog, examined, lastTick>>

\* main.c:440-447: curl_easy_init returned 0: result = 0, reason =
\* "curl-init-error", the Download goes to the results queue, continue
CurlInitError ==
    /\ ~crashed
    /\ wpc = "initerror"
    /\ downloads' = [downloads EXCEPT ![download].result = 0,
                                      ![download].reason = "curl-init-error"]
    /\ resultsQueue' = g_async_queue_push(resultsQueue, download)
    /\ recordLog' = [recordLog EXCEPT ![CurrentId] = @ + 1]
    /\ download' = NULL
    /\ wpc' = "wait"
    /\ UNCHANGED <<callerOptions, nextImage, nextDownloadTimers, jobQueue, progressQueue, progressRecycleQueue, count,
                   pollTimers, crashed>>
    /\ UNCHANGED <<curlResult, segment, segCursor, segmentLength, wtmp, wret, mainVars>>
    /\ UNCHANGED <<nextId, received, performed, pushedLog, progressLog,
                   completeLog, freeLog, claimLog, examined, lastTick>>

RECURSIVE SumLen(_, _)
SumLen(f, S) == IF S = {} THEN 0
                ELSE LET i == CHOOSE x \in S : TRUE
                     IN  Len(f[i]) + SumLen(f, S \ {i})
\* bytes the transfer engine has delivered so far
Delivered == SumLen(received, Ids)

\* the byte at offset k (from 1) of the segment seg curl handed over; beyond
\* the segment the read is outside curl's buffer
SegmentByte(seg, k) == IF k <= Len(seg) THEN seg[k] ELSE Indeterminate

\* memcpy(chunk + length, segment, n) (main.c:365), segment being seg + cursor,
\* as far as it stays inside the kMaxChunksize bytes of the chunk: the
\* chunk's bytes afterwards
Memcpy(chunk, length, seg, cursor, n) ==
    LET last == MIN(length + n, kMaxChunksize)
    IN  [i \in 1..Max(Len(chunk), last) |->
            IF i > length /\ i <= last THEN SegmentByte(seg, cursor + (i - length))
            ELSE IF i <= Len(chunk) THEN chunk[i]
            ELSE Indeterminate]

\* that memcpy writes past the end of the chunk or reads past the end of seg
MemcpyOutside(length, seg, cursor, n) ==
    n > 0 /\ (length + n > kMaxChunksize \/ cursor + n > Len(seg))

\* main.c:359-369: the fill of the current progress item.  st holds the
\* locals of onCURLDownloadSegment and the fields of the Download it writes.
SegmentFill(st, seg) ==
    LET chunkSize == MIN(SizeSub(kMaxChunksize, st.item.length), st.segmentLength)
        left == st.segmentLength - chunkSize
    IN  [st EXCEPT
            !.item = [st.item EXCEPT
                !.chunk = Memcpy(st.item.chunk, st.item.length, seg,
                                 st.segCursor, chunkSize),
                !.length = (st.item.length + st.segmentLength) % WordModulus],
            !.bytesLoaded = (st.bytesLoaded + chunkSize) % WordModulus,
            !.segmentLength = left,
            !.segCursor = st.segCursor + left,
            !.outside = st.outside \/ MemcpyOutside(st.item.length, seg,
                                                     st.segCursor, chunkSize)]

\* main.c:380-392: a new progress item with a new chunk, length = 0.  A
\* Download has at most one item that is not pushed yet, so the new item is
\* its next one after those pushed.
SegmentReload(st, id) == [st EXCEPT !.item = NewItem(id, Len(pushedLog[id]) + 1)]

\* main.c:356-395: the while loop of onCURLDownloadSegment from the top of an
\* iteration up to its return (stop = "return") or up to its call of
\* downloadPushProgressItem at main.c:374 (stop = "push")
RECURSIVE SegmentLoop(_, _, _)
SegmentLoop(st, seg, id) ==
    IF st.segmentLength = 0 THEN [st EXCEPT !.stop = "return"]
    ELSE IF st.item.none THEN SegmentLoop(SegmentReload(st, id), seg, id)
    ELSE LET filled == SegmentFill(st, seg)
         IN  IF filled.item.length = kMaxChunksize
             THEN [filled EXCEPT !.stop = "push"]
             ELSE SegmentLoop(filled, seg, id)

\* main.c:376-395: onCURLDownloadSegment after downloadPushProgressItem has
\* returned: the rest of the iteration, then the loop
SegmentAfterPush(st, seg, id) ==
    SegmentLoop(IF st.item.none THEN SegmentReload(st, id) ELSE st, seg, id)

\* the curl thread leaves the loop of onCURLDownloadSegment in state st: the
\* Download's fields and the thread's locals (which are dead once the
\* function has returned).  A memcpy outside the chunk or the segment has
\* corrupted or read foreign memory, or has faulted.
SegmentLeave(st, seg) ==
    \E fault \in (IF st.outside THEN BOOLEAN ELSE {FALSE}) :
        IF fault
        THEN /\ crashed' = TRUE
             /\ UNCHANGED <<downloads, segment, segmentLength, segCursor, wpc, wret>>
        ELSE /\ downloads' = [downloads EXCEPT
                    ![download].currentProgressItem = st.item,
                    ![download].bytesLoaded = st.bytesLoaded]
             /\ IF st.stop = "push"
                THEN /\ wpc' = "push" /\ wret' = "segment"
                     /\ segment' = seg
                     /\ segmentLength' = st.segmentLength
                     /\ segCursor' = st.segCursor
                ELSE /\ wpc' = "perform" /\ wret' = "none"
                     /\ segment' = << >>
                     /\ segmentLength' = 0
                     /\ segCursor' = 0
             /\ UNCHANGED crashed

\* curl_easy_perform calls onCURLDownloadSegment (main.c:348-399) with the
\* next n bytes of the transfer: the recycle queue is drained, segmentLength
\* = count * elements, and the loop runs
onCURLDownloadSegment(n) ==
    /\ ~crashed
    /\ wpc = "perform"
    /\ Delivered + n <= MaxBytes
    /\ LET have == Len(received[CurrentId])
           bytes == [i \in 1..n |-> have + i]
           st == [item |-> Current.currentProgressItem,
                  bytesLoaded |-> Current.bytesLoaded,
                  segmentLength |-> n, segCursor |-> 0,
                  outside |-> FALSE, stop |-> "none"]
       IN  /\ received' = [received EXCEPT ![CurrentId] = @ \o bytes]
           /\ SegmentLeave(SegmentLoop(st, bytes, CurrentId), bytes)
    /\ progressRecycleQueue' = downloadRecycleProgressItems(progressRecycleQueue)
    /\ UNCHANGED <<callerOptions, nextImage, nextDownloadTimers, jobQueue, resultsQueue, progressQueue, count, pollTimers>>
    /\ UNCHANGED <<download, curlResult, wtmp, mainVars>>
    /\ UNCHANGED <<nextId, performed, pushedLog, progressLog, completeLog,
                   freeLog, recordLog, claimLog, examined, lastTick>>

\* main.c:374-395: downloadPushProgressItem has returned into
\* onCURLDownloadSegment, which goes on
SegmentResume ==
    /\ ~crashed
    /\ wpc = "segment"
    /\ LET st == [item |-> Current.currentProgressItem,
                  bytesLoaded |-> Current.bytesLoaded,
                  segmentLength |-> segmentLength, segCursor |-> segCursor,
                  outside |-> FALSE, stop |-> "none"]
       IN  SegmentLeave(SegmentAfterPush(st, segment, CurrentId), segment)
    /\ UNCHANGED <<callerOptions, nextImage, nextDownloadTimers, jobQueue, resultsQueue, progressQueue, progressRecycleQueue,
                   count, pollTimers>>
    /\ UNCHANGED <<download, curlResult, wtmp, mainVars, history>>

\* the dlTotal curl reports: the server of the program is a long-poll server
\* that announces no Content-Length, and curl then reports 0
DlTotals == {0}

\* curl_easy_perform calls onCURLDownloadProgress (main.c:401-414); dlCurrent
\* is the number of bytes handed to onCURLDownloadSegment so far
onCURLDownloadProgress(dlTotal) ==
    /\ ~crashed
    /\ wpc = "perform"
    /\ downloads' = [downloads EXCEPT
            ![download].bytesExpected = dlTotal,
            ![download].bytesLoaded = Len(received[CurrentId])]
    /\ UNCHANGED <<callerOptions, nextImage, nextDownloadTimers, jobQueue, resultsQueue, progressQueue, progressRecycleQueue,
                   count, pollTimers, crashed, workerVars, mainVars, history>>

\* a curlThread that goes from curl_easy_perform straight to the record
AfterPerformRecord == "cleanup"
\* main.c:466: downloadPushProgressItem is the statement after
\* curl_easy_perform
AfterPerform == "push"

\* main.c:463-466: curl_easy_perform returns r; downloadPushProgressItem is
\* called for the Download
CurlReturn(r) ==
    /\ ~crashed
    /\ wpc = "perform"
    /\ curlResult' = r
    /\ performed' = [performed EXCEPT ![CurrentId] = [state |-> "returned", code |-> r]]
    /\ wpc' = AfterPerform
    /\ wret' = "cleanup"
    /\ UNCHANGED <<shared, download, segment, segCursor, segmentLength, wtmp,
                   mainVars>>
    /\ UNCHANGED <<nextId, received, pushedLog, progressLog, completeLog,
                   freeLog, recordLog, claimLog, examined, lastTick>>

\* the item as downloadPushProgressItem queues it (main.c:334-337)
StampItem(item) ==
    [item EXCEPT !.bytesExpected = Current.bytesExpected,
                 !.bytesLoaded = Current.bytesLoaded,
                 !.context = download]

\* downloadPushProgressItem (main.c:329-338): without a current item only
\* g_thread_yield; with one, the item is stamped and the load of
\* outstandingProgressItems++ is done
PushLoad ==
    /\ ~crashed
    /\ wpc = "push"
    /\ IF Current.currentProgressItem.none
       THEN /\ wpc' = wret
            /\ wret' = "none"
            /\ UNCHANGED <<downloads, wtmp>>
       ELSE /\ downloads' = [downloads EXCEPT ![download].currentProgressItem =
                                StampItem(@)]
            /\ wtmp' = Current.outstandingProgressItems
            /\ wpc' = "pushstore"
            /\ UNCHANGED wret
    /\ UNCHANGED <<callerOptions, nextImage, nextDownloadTimers, jobQueue, resultsQueue, progressQueue, progressRecycleQueue,
                   count, pollTimers, crashed>>
    /\ UNCHANGED <<download, curlResult, segment, segCursor, segmentLength,
                   mainVars, history>>

\* main.c:338: the store of outstandingProgressItems++
PushStore ==
    /\ ~crashed
    /\ wpc = "pushstore"
    /\ downloads' = [downloads EXCEPT
            ![download].outstandingProgressItems = wtmp + 1]
    /\ wtmp' = 0
    /\ wpc' = "pushqueue"
    /\ UNCHANGED <<callerOptions, nextImage, nextDownloadTimers, jobQueue, resultsQueue, progressQueue, progressRecycleQueue,
                   count, pollTimers, crashed>>
    /\ UNCHANGED <<download, curlResult, segment, segCursor, segmentLength,
                   wret, mainVars, history>>

\* main.c:340-345: the item goes to the progress queue, currentProgressItem = 0
PushQueue ==
    /\ ~crashed
    /\ wpc = "pushqueue"
    /\ progressQueue' = g_async_queue_push(progressQueue, Current.currentProgressItem)
    /\ pushedLog' = [pushedLog EXCEPT ![CurrentId] =
                        Append(@, [data |-> Current.currentProgressItem.chunk,
                                   length |-> Current.currentProgressItem.length,
                                   seq |-> Current.currentProgressItem.seq])]
    /\ downloads' = [downloads EXCEPT ![download].currentProgressItem = NoItem]
    /\ wpc' = wret
    /\ wret' = "none"
    /\ UNCHANGED <<callerOptions, nextImage, nextDownloadTimers, jobQueue, resultsQueue, progressRecycleQueue, count,
                   pollTimers, crashed>>
    /\ UNCHANGED <<download, curlResult, segment, segCursor, segmentLength,
                   wtmp, mainVars>>
    /\ UNCHANGED <<nextId, received, performed, progressLog, completeLog,
                   freeLog, recordLog, claimLog, examined, lastTick>>

\* main.c:468-473: result and reason are set and the Download goes to the
\* results queue
CurlThreadFinish ==
    /\ ~crashed
    /\ wpc = "cleanup"
    /\ downloads' = [downloads EXCEPT ![download].result = curlResult,
                                      ![download].reason = "curl-done"]
    /\ resultsQueue' = g_async_queue_push(resultsQueue, download)
    /\ recordLog' = [recordLog EXCEPT ![CurrentId] = @ + 1]
    /\ curlResult' = 0
    /\ wpc' = "recycle"
    /\ UNCHANGED <<callerOptions, nextImage, nextDownloadTimers, jobQueue, progressQueue, progressRecycleQueue, count,
                   pollTimers, crashed>>
    /\ UNCHANGED <<download, segment, segCursor, segmentLength,
                   wtmp, wret, mainVars>>
    /\ UNCHANGED <<nextId, received, performed, pushedLog, progressLog,
                   completeLog, freeLog, claimLog, examined, lastTick>>

\* main.c:475: downloadRecycleProgressItems at the end of the iteration
CurlThreadRecycle ==
    /\ ~crashed
    /\ wpc = "recycle"
    /\ progressRecycleQueue' = downloadRecycleProgressItems(progressRecycleQueue)
    /\ download' = NULL
    /\ wpc' = "wait"
    /\ UNCHANGED <<callerOptions, nextImage, nextDownloadTimers, jobQueue, resultsQueue, progressQueue, count, pollTimers,
                   downloads, crashed>>
    /\ UNCHANGED <<curlResult, segment, segCursor, segmentLength, wtmp, wret,
                   mainVars, history>>

\* main.c:429-437: g_async_queue_pop returns 0, the shutdown token, and the
\* loop is left.  Nothing in main.c pushes the token, so the action is no part
\* of Next: it is the step of a curlThread whose pop does return it, at any
\* place among the queued jobs.
CurlThreadShutdown ==
    /\ ~crashed
    /\ wpc = "wait"
    /\ wpc' = "shutdown"
    /\ UNCHANGED <<shared, download, curlResult, segment, segCursor,
                   segmentLength, wtmp, wret, mainVars, history>>

\* main.c:478-486: downloadRecycleProgressItems after the loop, the four
\* g_async_queue_unref and the return of the thread function
CurlThreadExit ==
    /\ ~crashed
    /\ wpc = "shutdown"
    /\ progressRecycleQueue' = downloadRecycleProgressItems(progressRecycleQueue)
    /\ wpc' = "stopped"
    /\ UNCHANGED <<callerOptions, nextImage, nextDownloadTimers, jobQueue,
                   resultsQueue, progressQueue, count, pollTimers,
                   downloads, crashed>>
    /\ UNCHANGED <<download, curlResult, segment, segCursor, segmentLength,
                   wtmp, wret, mainVars, history>>

\* ------------------------------------------------------- memory accesses
\* the fields of a Download other than outstandingProgressItems (main.c:153-167)
Fields == {"options", "result", "reason", "bytesExpected", "bytesLoaded",
           "currentProgressItem"}
Read(a, F) == {[addr |-> a, field |-> f, write |-> FALSE] : f \in F}
Write(a, F) == {[addr |-> a, field |-> f, write |-> TRUE] : f \in F}

\* the fields of Downloads that the next step of the curl thread reads or
\* writes: curl_easy_setopt reads options.url (main.c:450), the two curl
\* callbacks write the byte counters and the current item (main.c:359-410),
\* downloadPushProgressItem reads them and clears the item (main.c:331-341),
\* result and reason are written last (main.c:443-444, 470-471)
CurlThreadAccess ==
    CASE wpc = "initerror" -> Write(download, {"result", "reason"})
      [] wpc = "perform"   -> Read(download, {"options"})
                              \cup Write(download, {"bytesExpected", "bytesLoaded",
                                                    "currentProgressItem"})
      [] wpc = "segment"   -> Write(download, {"bytesLoaded", "currentProgressItem"})
      [] wpc = "push"      -> Read(download, {"bytesExpected", "bytesLoaded"})
                              \cup Write(download, {"currentProgressItem"})
      [] wpc = "pushqueue" -> Write(download, {"currentProgressItem"})
      [] wpc = "cleanup"   -> Write(download, {"result", "reason"})
      [] OTHER             -> {}

\* the fields of Downloads that the next step of the main thread reads or
\* writes: DownloadNew fills a block that malloc returns (main.c:218-235), the
\* progress loop reads options of the item's Download (main.c:260-263), the
\* completion loop reads options, result and reason (main.c:284-287) and
\* frees the Download (main.c:292-294)
MainThreadAccess ==
    (IF (dpc = "idle" \/ InCallback) /\ nextId < MaxDownloads
     THEN UNION {Write(a, Fields) : a \in {b \in Addr : ~downloads[b].live}}
     ELSE {})
    \cup (IF (dpc = "progress" \/ PollEntered) /\ progressQueue # << >>
          THEN Read(g_queue_peek_tail(progressQueue).context, {"options"})
          ELSE {})
    \cup (IF dpc = "complete"
          THEN Read(completeItem, {"options", "result", "reason"})
          ELSE {})
    \cup (IF dpc = "free" THEN Write(completeItem, Fields) ELSE {})

\* ---------------------------------------------------------- specification
MainThread ==
    \/ \E a \in Addr : DownloadNew(a)
    \/ PollProgressPop
    \/ PollDecrementLoad
    \/ PollDecrementStore
    \/ PollResultPop
    \/ PollResultHandle
    \/ PollResultFree

CurlThread ==
    \/ CurlThreadPop
    \/ CurlInitError
    \/ \E n \in 0..MaxBytes : onCURLDownloadSegment(n)
    \/ SegmentResume
    \/ \E dlTotal \in DlTotals : onCURLDownloadProgress(dlTotal)
    \/ \E r \in CurlCodes : CurlReturn(r)
    \/ PushLoad
    \/ PushStore
    \/ PushQueue
    \/ CurlThreadFinish
    \/ CurlThreadRecycle

Next == MainThread \/ CurlThread

Spec == Init /\ [][Next]_vars

\* the curl thread and the main loop are scheduled fairly: a thread that can
\* take a step eventually takes one (a tick is due every 100 ms while the
\* timer is registered, main.c:242)
FairSpec == Spec /\ WF_vars(MainThread) /\ WF_vars(CurlThread)

\* the main thread of the PiFrame application: its downloads are started by
\* onNextDownloadDelay only
AppMainThread ==
    \/ \E a \in Addr : onNextDownloadDelay(a)
    \/ PollProgressPop
    \/ PollDecrementLoad
    \/ PollDecrementStore
    \/ PollResultPop
    \/ PollResultHandle
    \/ PollResultFree

AppNext == AppMainThread \/ CurlThread

\* the PiFrame application with both threads scheduled fairly (the GTK main
\* loop runs every timer callback that is due, main.c:911)
AppSpec == AppInit /\ [][AppNext]_vars
                   /\ WF_vars(AppMainThread) /\ WF_vars(CurlThread)

\* the curl thread with a g_async_queue_pop that may return the shutdown token
ShutdownCurlThread == CurlThread \/ CurlThreadShutdown \/ CurlThreadExit

ShutdownNext == MainThread \/ ShutdownCurlThread

\* the program with such a curl thread; once the loop is left the thread
\* function runs to its return
ShutdownSpec == Init /\ [][ShutdownNext]_vars /\ WF_vars(CurlThreadExit)

\* ------------------------------------------------------------------ claims
\* ids of the downloads with a progress item in the progress queue
Queued == {progressQueue[k].id : k \in 1..Len(progressQueue)}
\* the completion callback of download i has been invoked
Completed(i) == completeLog[i] # << >>
\* DownloadNew has been called for download i
Submitted(i) == i <= nextId
\* the transfer of download i has ended and its record is in the results queue
\* or beyond
Finished(i) == performed[i].state = "returned" /\ recordLog[i] > 0
\* the lengths of the items of a log, in order
Lengths(log) == [k \in 1..Len(log) |-> log[k].length]
\* the bytes of the items of a log, in order
RECURSIVE Concat(_)
Concat(log) == IF log = << >> THEN << >>
               ELSE Head(log).data \o Concat(Tail(log))
\* the chunk lengths a transfer of n bytes is to produce
ExpectedLengths(n) ==
    [k \in 1..(n \div kMaxChunksize) |-> kMaxChunksize]
        \o (IF n % kMaxChunksize > 0 THEN <<n % kMaxChunksize>> ELSE << >>)
\* number of times i occurs in a sequence
Occurrences(seq, i) == Cardinality({k \in 1..Len(seq) : seq[k] = i})

\* C1: once the completion callback of a download has been invoked, none of
\* the progress items the curl thread pushed for it is still in the progress
\* queue.
C1_CompletionAfterChunks == \A i \in Ids : Completed(i) => i \notin Queued

\* C2: under fair scheduling and a transfer engine that returns, every
\* download submitted with a completion callback eventually has that callback
\* invoked (a process that a memory fault has killed is not held against
\* the claim).
C2_EveryDownloadCompletes ==
    \A i \in Ids :
        (Submitted(i) /\ callerOptions.completeCallback)
            ~> (Completed(i) \/ crashed)

\* C3: no download has its completion callback invoked more than once, and
\* none is freed more than once, however often its record is pushed back.
C3_AtMostOnce ==
    \A i \in Ids : Len(completeLog[i]) <= 1 /\ freeLog[i] <= 1

\* C3 witness: one download has had its one completion and its one free while
\* the record of another has been pushed back and popped again.
C3_Witness ==
    \E i, j \in Ids : /\ Len(completeLog[i]) = 1 /\ freeLog[i] = 1
                       /\ examined[j] = 2 /\ freeLog[j] = 0

\* C4: a record that a tick pushes back to the front of the results queue is
\* not examined again by the same tick.
C4_DeferredSkipped == \A i \in Ids : examined[i] <= 1

\* C5: every invocation of onDownloadQueuePoll returns (a process that a
\* memory fault has killed is not held against the claim).
C5_TickReturns == (dpc # "idle") ~> (dpc = "idle" \/ crashed)

\* C6: a transfer of N bytes pushes floor(N / C) items of length C, then one
\* item of length N mod C if that is not 0, and nothing else.
C6_ChunkSizes ==
    \A i \in Ids :
        Finished(i) => Lengths(pushedLog[i]) = ExpectedLengths(Len(received[i]))

\* C7: the data of the items pushed for a download, concatenated in order, are
\* the bytes handed to onCURLDownloadSegment for it, and each item's length
\* is the number of its bytes.
C7_ByteConservation ==
    \A i \in Ids :
        Finished(i) =>
            /\ Concat(pushedLog[i]) = received[i]
            /\ \A k \in 1..Len(pushedLog[i]) :
                    pushedLog[i][k].length = Len(pushedLog[i][k].data)

\* C8: a download whose curl_easy_init failed gets no progress callback and at
\* most one completion callback, whose result code is not the Ok code.
C8_InitErrorCode ==
    \A i \in Ids :
        performed[i].state = "init-error" =>
            /\ progressLog[i] = << >>
            /\ Len(completeLog[i]) <= 1
            /\ \A k \in 1..Len(completeLog[i]) : completeLog[i][k].result # CURLE_OK

\* C9: a download whose curl_easy_perform returned a failure code is claimed
\* once, gets one record, and its completion callback receives that code
\* after progress callbacks have delivered every byte received.
C9_TransportFailure ==
    \A i \in Ids :
        (performed[i].state = "returned" /\ performed[i].code # CURLE_OK) =>
            /\ Occurrences(claimLog, i) = 1
            /\ recordLog[i] <= 1
            /\ Completed(i) =>
                  /\ completeLog[i][1].result = performed[i].code
                  /\ callerOptions.progressCallback =>
                        Concat(progressLog[i]) = received[i]

\* C10: the curl thread claims downloads in submission order, and while it is
\* at work on one download the record of every earlier one has been pushed
\* to the results queue and no later one has been claimed.
C10_SequentialWorker ==
    /\ claimLog = [k \in 1..Len(claimLog) |-> k]
    /\ \A i, j \in Ids :
          (i < j /\ performed[j].state # "none") => recordLog[i] = 1
    /\ Cardinality({i \in Ids : performed[i].state # "none" /\ recordLog[i] = 0}) <= 1

\* C10 witness: the second download's transfer is active, the first one's
\* record having been pushed.
C10_Witness ==
    /\ MaxDownloads >= 2
    /\ claimLog = <<1, 2>>
    /\ performed[2].state = "active"
    /\ recordLog[1] = 1

\* number of Downloads that DownloadNew has created and that are not freed
LiveCount == Cardinality({a \in Addr : downloads[a].live})
\* the step of a tick that returns
TickReturns == dpc = "results" /\ dpc' = "idle"
\* a step of a tick that has found the progress queue empty on entry, or that
\* returns without the tick having popped anything
EmptyTickStep ==
    \/ dpc = "idle" /\ dpc' = "results"
    \/ TickReturns /\ lastTick = "empty"

\* C11: a tick keeps its timer (returns TRUE) exactly when there is a live
\* Download when it returns and gives it up otherwise; a tick that finds both
\* queues empty invokes no callback and changes neither gDownload.count, nor
\* any Download, nor any of the four queues.
C11_TickResult ==
    [][ /\ TickReturns =>
              /\ pollTimers' = pollTimers <=> LiveCount > 0
              /\ pollTimers' = pollTimers - 1 <=> LiveCount = 0
        /\ EmptyTickStep =>
              UNCHANGED <<count, downloads, jobQueue, resultsQueue, progressQueue,
                          progressRecycleQueue, progressLog, completeLog>>
      ]_vars

\* C11 witness: a tick that popped nothing has returned with a Download live
\* and its timer still registered.
C11_Witness ==
    /\ dpc = "idle" /\ lastTick = "empty"
    /\ LiveCount > 0 /\ pollTimers = 1

\* C11 witness of the other result: a tick has returned with no Download live
\* and its timer is gone.
C11_WitnessStop ==
    /\ dpc = "idle" /\ lastTick = "popped"
    /\ LiveCount = 0 /\ pollTimers = 0

\* C12: between two ticks onDownloadQueuePoll is registered exactly once when
\* a Download is live and not at all when none is, and at no moment is it
\* registered twice.
C12_TickArming ==
    /\ pollTimers <= 1
    /\ dpc = "idle" => pollTimers = (IF LiveCount > 0 THEN 1 ELSE 0)

\* C12 witness: between two ticks, one Download has been completed and freed,
\* another one is live, and the poller is registered once.
C12_Witness ==
    /\ dpc = "idle" /\ pollTimers = 1
    /\ LiveCount = 1
    /\ \E i \in Ids : freeLog[i] = 1

\* the progress items of the Download at a that the curl thread has counted in
\* (main.c:338) and whose delivery the tick has not finished (main.c:267): those
\* in the progress queue, the one the tick holds, the one about to be queued
Undelivered(a) ==
    Cardinality({k \in 1..Len(progressQueue) :
                    progressQueue[k].id = downloads[a].id})
    + (IF dpc \in {"decrement", "store"} /\ progressItem.id = downloads[a].id
       THEN 1 ELSE 0)
    + (IF wpc = "pushqueue" /\ download = a THEN 1 ELSE 0)

\* C13: outstandingProgressItems of a live Download is the number of its
\* progress items pushed and not yet delivered, and is never negative.
C13_AtomicCounter ==
    \A a \in Addr :
        downloads[a].live =>
            /\ downloads[a].outstandingProgressItems = Undelivered(a)
            /\ downloads[a].outstandingProgressItems >= 0

\* the two threads are about to access the same field of the same Download,
\* one of them writing
Race ==
    \E x \in MainThreadAccess, y \in CurlThreadAccess :
        x.addr = y.addr /\ x.field = y.field /\ (x.write \/ y.write)
\* the elements of a queue
Range(queue) == {queue[k] : k \in 1..Len(queue)}

\* C14: no field of a Download other than outstandingProgressItems is accessed
\* by both threads at once with one of them writing; the curl thread accesses
\* a Download only after popping it from the job queue and before pushing it
\* to the results queue, and the main thread reads result and reason and
\* frees a Download only after popping it from the results queue.
C14_ThreadConfinement ==
    /\ ~Race
    /\ \A y \in CurlThreadAccess :
          /\ y.addr \notin Range(jobQueue) \cup Range(resultsQueue)
          /\ y.addr # completeItem
          /\ recordLog[downloads[y.addr].id] = 0
    /\ dpc \in {"complete", "free"} =>
          /\ recordLog[downloads[completeItem].id] = 1
          /\ completeItem \notin Range(resultsQueue)

\* C14 witness: the main thread is about to read result and reason of one
\* Download while the curl thread is about to write those of another.
C14_Witness ==
    /\ dpc = "complete" /\ wpc = "cleanup"
    /\ download # completeItem

\* C15: a record the tick puts back with g_async_queue_push_front is the one
\* the next pop of the results queue returns, whatever g_async_queue_push has
\* put and puts into the queue: the push_front leaves it at the popping end
\* with the records already queued behind it in their order, and no later
\* g_async_queue_push changes which record is popped next.
C15_FrontPushPriority ==
    [][ Len(resultsQueue') > Len(resultsQueue) =>
            IF dpc = "complete" /\ dpc' # dpc
            THEN /\ g_queue_peek_tail(resultsQueue') = completeItem
                 /\ g_queue_pop_tail(resultsQueue') = resultsQueue
            ELSE resultsQueue # << >> =>
                    g_queue_peek_tail(resultsQueue') = g_queue_peek_tail(resultsQueue)
      ]_vars

\* C15 witness: the results queue holds a record that was put back in this
\* tick at its popping end and, behind it, a record that was pushed normally.
C15_Witness ==
    /\ dpc = "results"
    /\ Len(resultsQueue) = 2
    /\ examined[downloads[resultsQueue[2]].id] >= 1
    /\ examined[downloads[resultsQueue[1]].id] = 0

\* C16: a Download is freed only after its completion callback, if it has one,
\* has been called; once it is freed no progress item of it is in the
\* progress queue or in the hands of the tick, and it is neither in the job
\* queue, nor the Download the curl thread works on, nor in the results queue.
C16_HandleLifetime ==
    /\ \A i \in Ids :
          freeLog[i] > 0 =>
              /\ callerOptions.completeCallback => Completed(i)
              /\ i \notin Queued
              /\ ~(dpc \in {"decrement", "store"} /\ progressItem.id = i)
    /\ \A a \in Range(jobQueue) \cup Range(resultsQueue) : downloads[a].live
    /\ download # NULL /\ wpc # "recycle" => downloads[download].live

\* the progress items there can be: the s-th item of download i
Items == Ids \X (1..(MaxBytes + 1))
\* how often item it is in a queue
InQueue(queue, it) ==
    Cardinality({k \in 1..Len(queue) : queue[k].id = it[1] /\ queue[k].seq = it[2]})
\* item it is the current item of a Download, being filled or being pushed
Filling(it) ==
    Cardinality({a \in Addr : /\ downloads[a].currentProgressItem.id = it[1]
                              /\ downloads[a].currentProgressItem.seq = it[2]})
\* item it is the one the tick has popped and is delivering
Delivering(it) ==
    IF progressItem.id = it[1] /\ progressItem.seq = it[2] THEN 1 ELSE 0
\* how far item it has got: 0 not allocated, 1 with the curl thread, 2 in the
\* progress queue, 3 with the tick, 4 in the recycle queue, 5 freed
Stage(it) ==
    IF Filling(it) > 0 THEN 1
    ELSE IF InQueue(progressQueue, it) > 0 THEN 2
    ELSE IF Delivering(it) > 0 THEN 3
    ELSE IF InQueue(progressRecycleQueue, it) > 0 THEN 4
    ELSE IF it[2] <= Len(pushedLog[it[1]]) THEN 5
    ELSE 0
\* item it, as the curl thread pushed it
Pushed(it) == pushedLog[it[1]][it[2]]
\* x holds the data and the length that were pushed for it
AsPushed(x, it) ==
    /\ it[2] <= Len(pushedLog[it[1]])
    /\ x.length = Pushed(it).length
    /\ x.data = Pushed(it).data
\* all progress callbacks made so far
ProgressCalls == UNION {Range(progressLog[i]) : i \in Ids}

\* C17: a progress item is in one place at a time and goes from the curl
\* thread to the progress queue, to the tick, to the recycle queue, and is then
\* freed, one stage at a time and never backwards; while it is queued or being
\* delivered, and when it is handed to a progress callback, it holds what was
\* pushed; it is handed to a progress callback at most once; an item the curl
\* thread is filling holds nothing but bytes of its own download, as many as
\* its length says; and while the progress queue holds an item the tick
\* eventually pops and delivers one, the queue being first in first out, so
\* that every item pushed is delivered and released (a process that a memory
\* fault has killed is not held against the claim).
C17_ChunkLifecycle ==
    /\ [] \A it \in Items :
            /\ Filling(it) + InQueue(progressQueue, it) + Delivering(it)
                 + InQueue(progressRecycleQueue, it) <= 1
            /\ InQueue(progressQueue, it) > 0 =>
                 \A k \in 1..Len(progressQueue) :
                    (progressQueue[k].id = it[1] /\ progressQueue[k].seq = it[2]) =>
                        AsPushed([data |-> progressQueue[k].chunk,
                                  length |-> progressQueue[k].length], it)
            /\ Delivering(it) > 0 =>
                 AsPushed([data |-> progressItem.chunk,
                           length |-> progressItem.length], it)
            /\ Cardinality({c \in ProgressCalls :
                               c.from = it[1] /\ c.seq = it[2]}) <= 1
            /\ \A c \in ProgressCalls :
                 (c.from = it[1] /\ c.seq = it[2]) => AsPushed(c, it)
            /\ \A a \in Addr :
                 LET item == downloads[a].currentProgressItem
                 IN  (item.id = it[1] /\ item.seq = it[2]
                        /\ item.length <= kMaxChunksize) =>
                        /\ Len(item.chunk) = item.length
                        /\ \A k \in 1..Len(item.chunk) :
                              item.chunk[k] \in Range(received[it[1]])
    /\ [][ \A it \in Items : Stage(it)' \in {Stage(it), Stage(it) + 1} ]_vars
    /\ (progressQueue # << >>) ~> (dpc = "store" \/ crashed)

\* number of completion callbacks made so far
RECURSIVE Completions(_)
Completions(S) == IF S = {} THEN 0
                  ELSE LET i == CHOOSE x \in S : TRUE
                       IN  Len(completeLog[i]) + Completions(S \ {i})

\* C18: in the PiFrame application every completion of a download registers
\* onNextDownloadDelay once, so that there is never more than one download
\* waiting on that timer or live in the Download subsystem (a Download whose
\* completion callback has returned and that is being freed not counted),
\* and after every download started the next one is eventually scheduled (a
\* process that a memory fault has killed is not held against the claim).
C18_RequestLoop ==
    /\ [] /\ nextDownloadTimers = 1 + Completions(Ids) - nextId
          /\ nextDownloadTimers + LiveCount
                - (IF dpc = "free" THEN 1 ELSE 0) <= 1
    /\ \A i \in Ids :
          Submitted(i) ~> (nextDownloadTimers > 0 \/ nextId > i \/ crashed)

\* the tick pops progress item it in this step
PopsItem(it) ==
    /\ dpc # "decrement" /\ dpc' = "decrement"
    /\ progressItem'.id = it[1] /\ progressItem'.seq = it[2]

\* C19: the progress items of a download are handed to the progress callback
\* in the order in which the curl thread produced them, whatever other
\* downloads' items are queued between them and however many ticks it takes:
\* in the progress queue an older item of a download is nearer the popping end
\* than a newer one, when the tick pops an item every older item of that
\* download has been popped and released and no newer one has been popped,
\* and the calls made for the items of a download are in increasing order.
C19_ChunkOrder ==
    /\ [] \A j, k \in 1..Len(progressQueue) :
            (j < k /\ progressQueue[j].id = progressQueue[k].id) =>
                progressQueue[j].seq > progressQueue[k].seq
    /\ [] \A i \in Ids : \A j, k \in 1..Len(progressLog[i]) :
            (j < k /\ progressLog[i][j].from = progressLog[i][k].from) =>
                progressLog[i][j].seq < progressLog[i][k].seq
    /\ [][ \A it \in Items : PopsItem(it) =>
             \A s \in 1..(MaxBytes + 1) :
                /\ s < it[2] => Stage(<<it[1], s>>) >= 4
                /\ s > it[2] => Stage(<<it[1], s>>) <= 2 ]_vars

\* two progress calls have been made for one download, for its first and
\* then for its second item
C19_Witness ==
    \E i \in Ids :
        /\ Len(progressLog[i]) >= 2
        /\ progressLog[i][1].from = i /\ progressLog[i][1].seq = 1
        /\ progressLog[i][2].from = i /\ progressLog[i][2].seq = 2

\* the curl thread has taken download i from the job queue
Claimed(i) == \E k \in 1..Len(claimLog) : claimLog[k] = i
\* the curl thread has finished the iteration of its loop for download i
Left(i) ==
    /\ Claimed(i)
    /\ claimLog[Len(claimLog)] # i
       \/ wpc \in {"wait", "recycle", "shutdown", "stopped"}
\* the curl thread pushes the record of download i in this step
PushesRecord(i) == recordLog'[i] = recordLog[i] + 1

\* C20: the curl thread pushes one record to the results queue for every
\* download it has taken from the job queue, and never a second one; it pushes
\* the record only for a download it has taken, once curl_easy_perform has
\* returned (or curl_easy_init has failed) and when no progress item of the
\* download is left with the curl thread, the last one having been flushed to
\* the progress queue; and after the record it pushes no progress item of that
\* download.
C20_RecordProduction ==
    /\ [] \A i \in Ids :
            /\ recordLog[i] <= 1
            /\ Left(i) => recordLog[i] = 1
            /\ recordLog[i] > 0 =>
                 /\ Claimed(i)
                 /\ performed[i].state \in {"returned", "init-error"}
                 /\ \A s \in 1..(MaxBytes + 1) : Filling(<<i, s>>) = 0
    /\ [][ \A i \in Ids :
             /\ PushesRecord(i) =>
                  /\ wpc \in {"cleanup", "initerror"}
                  /\ downloads[download].id = i
                  /\ downloads[download].currentProgressItem.none
             /\ recordLog[i] > 0 => pushedLog'[i] = pushedLog[i] ]_vars

\* the record of a download has been pushed after its transfer ended with a
\* partly filled item, which was flushed to the progress queue before it
C20_Witness ==
    \E i \in Ids :
        /\ recordLog[i] = 1
        /\ performed[i].state = "returned"
        /\ pushedLog[i] # << >>
        /\ pushedLog[i][Len(pushedLog[i])].length \in 1..(kMaxChunksize - 1)

\* the main thread takes a step from the place at of onDownloadQueuePoll
TickStepFrom(at) == dpc = at /\ dpc' # at

\* C21: a registered callback is all that a missing one takes away.  Without
\* a progress callback no progress call is ever made, and the tick still
\* does outstandingProgressItems-- for the Download of every item it pops and
\* pushes the item to the recycle queue; without a completion callback no
\* completion call is ever made, and the tick still frees a Download whose
\* record it pops with no item outstanding and does gDownload.count--.
C21_MissingCallbacks ==
    /\ [] (~callerOptions.progressCallback =>
              \A i \in Ids : progressLog[i] = << >>)
    /\ [] (~callerOptions.completeCallback =>
              \A i \in Ids : completeLog[i] = << >>)
    /\ [][ (/\ dpc # "decrement" /\ dpc' = "decrement"
            /\ ~downloads[progressItem'.context].options.progressCallback) =>
               progressLog' = progressLog ]_vars
    /\ [][ (/\ TickStepFrom("decrement")
            /\ ~downloads[progressItem.context].options.progressCallback) =>
               /\ dpc' = "store"
               /\ dtmp' = downloads[progressItem.context].outstandingProgressItems ]_vars
    /\ [][ (/\ TickStepFrom("store")
            /\ ~downloads[progressItem.context].options.progressCallback) =>
               /\ downloads'[progressItem.context].outstandingProgressItems = dtmp - 1
               /\ \A it \in Items :
                    (it[1] = progressItem.id /\ it[2] = progressItem.seq) =>
                        Stage(it) = 3 /\ Stage(it)' = 4 ]_vars
    /\ [][ (/\ TickStepFrom("complete")
            /\ downloads[completeItem].outstandingProgressItems = 0
            /\ ~downloads[completeItem].options.completeCallback) =>
               /\ completeLog' = completeLog
               /\ dpc' = "free" /\ completeItem' = completeItem ]_vars
    /\ [][ (/\ TickStepFrom("free")
            /\ ~downloads[completeItem].options.completeCallback) =>
               /\ ~downloads'[completeItem].live
               /\ freeLog'[downloads[completeItem].id]
                    = freeLog[downloads[completeItem].id] + 1
               /\ count' = (count - 1) % WordModulus ]_vars

\* without callbacks registered, an item has been popped and pushed to the
\* recycle queue and a Download has been freed
C21_Witness ==
    /\ ~callerOptions.progressCallback /\ ~callerOptions.completeCallback
    /\ progressRecycleQueue # << >>
    /\ \E i \in Ids : freeLog[i] = 1 /\ pushedLog[i] # << >>

\* the curl thread function has returned
Stopped == wpc = "stopped"

\* C22: the curl thread leaves its loop only at the blocking pop, when the
\* pop returns the shutdown token: no transfer is then in flight and every
\* download it took has its record.  It then empties the recycle queue once
\* and returns; after that it takes no job and pushes neither a progress item
\* nor a record, though jobs may be left in the job queue.  Between leaving
\* the loop and returning it does nothing else and nothing holds it up.  A
\* transfer that has started ends only by the return of curl_easy_perform.
C22_Shutdown ==
    /\ [][ (wpc # "shutdown" /\ wpc' = "shutdown") =>
              /\ wpc = "wait"
              /\ \A i \in Ids : Claimed(i) =>
                    /\ recordLog[i] = 1
                    /\ performed[i].state \in {"returned", "init-error"} ]_vars
    /\ [][ (~Stopped /\ Stopped') =>
              /\ wpc = "shutdown"
              /\ progressRecycleQueue' = << >> ]_vars
    /\ [][ Stopped =>
              /\ Stopped'
              /\ claimLog' = claimLog /\ jobQueue' \in {jobQueue} \cup
                    {Submit(jobQueue, a) : a \in Addr}
              /\ pushedLog' = pushedLog
              /\ recordLog' = recordLog ]_vars
    /\ [][ \A i \in Ids : performed[i].state = "active" =>
              \/ performed'[i].state = "active" /\ wpc' # "shutdown"
              \/ performed'[i].state = "returned" /\ wpc = "perform" ]_vars
    /\ [][ wpc = "shutdown" => wpc' \in {"shutdown", "stopped"} ]_vars
    /\ [] ((wpc = "shutdown" /\ ~crashed) => ENABLED CurlThreadExit)

\* the curl thread has returned after working on a download, with a job left
\* in the job queue that it will not take
C22_Witness ==
    /\ Stopped
    /\ jobQueue # << >>
    /\ \E i \in Ids : recordLog[i] = 1

\* C23: the current progress item of every Download and every item in the
\* progress queue holds at most kMaxChunksize bytes by its length field, so
\* that kMaxChunksize - length does not wrap around and memcpy stays inside
\* the chunk.
C23_ChunkCapacity ==
    /\ \A a \in Addr :
          downloads[a].currentProgressItem.length <= kMaxChunksize
    /\ \A k \in 1..Len(progressQueue) :
          progressQueue[k].length <= kMaxChunksize

\* C24: every progress item the curl thread has pushed to the progress queue
\* holds at least one byte, and no progress callback is called with length 0.
C24_NoEmptyChunk ==
    /\ \A i \in Ids : \A k \in 1..Len(pushedLog[i]) : pushedLog[i][k].length >= 1
    /\ \A c \in ProgressCalls : c.length >= 1

\* number of Downloads freed so far
RECURSIVE Freed(_)
Freed(S) == IF S = {} THEN 0
            ELSE LET i == CHOOSE x \in S : TRUE
                 IN  freeLog[i] + Freed(S \ {i})
\* the curl thread holds a Download whose record it has not pushed yet
WorkerActive == download # NULL /\ wpc # "recycle"

\* C25: whenever no callback of the main loop is running, gDownload.count is
\* the number of Downloads created by DownloadNew and not yet freed, and these
\* are the Downloads in the job queue, the one the curl thread is working on
\* and those in the results queue.  The count goes up only by one, in
\* DownloadNew, and down only by one, when the tick frees a Download, which
\* it does only at a count above 0.
C25_LiveCount ==
    /\ [] (dpc = "idle" =>
              /\ count = nextId - Freed(Ids)
              /\ count = LiveCount
              /\ count = Len(jobQueue) + (IF WorkerActive THEN 1 ELSE 0)
                            + Len(resultsQueue))
    /\ [][ count' > count => /\ count' = count + 1
                             /\ nextId' = nextId + 1
                             /\ Freed(Ids)' = Freed(Ids) ]_vars
    /\ [][ count' < count => /\ count > 0
                             /\ count' = count - 1
                             /\ Freed(Ids)' = Freed(Ids) + 1
                             /\ LiveCount' = LiveCount - 1
                             /\ nextId' = nextId ]_vars
    /\ [][ nextId' # nextId \/ Freed(Ids)' # Freed(Ids) => count' # count ]_vars

\* between two callbacks of the main loop, after the tick has freed one
\* Download, another one is still counted
C25_Witness ==
    /\ dpc = "idle"
    /\ count = 1
    /\ \E i \in Ids : freeLog[i] = 1
====
